---- MODULE Spec2Model ----
(***************************************************************************)
(* Model of graphs-rs: the Graph engine of src/src/graph.rs and the Cycle  *)
(* value of src/src/cycle.rs.                                              *)
(*                                                                         *)
(* A Graph is the BTreeMap `nodes`: a function whose domain is the set of  *)
(* node ids and whose value at a node is the BTreeSet of its successors.   *)
(* Every loop that walks a BTreeMap or a BTreeSet walks it in ascending    *)
(* order (Ascending).  Every method is an operator computed the way the    *)
(* code computes it; every public method is one action that applies it to  *)
(* the current graph and records the call (op, args), the graph it was     *)
(* called on (before) and what it returned (ok, removed, pairs, cyc, out,  *)
(* ends, shown).                                                           *)
(* The program is single-threaded: a call is made when the previous one    *)
(* has returned to its caller (op = "ready").                              *)
(***************************************************************************)
EXTENDS Integers, Sequences, FiniteSets, TLC

\* Node ids are u32; the model uses the ids 1..MaxId.
MaxId == 3
\* Longest input handed to Cycle::new.
MaxLen == 4
\* Longest id list handed to subgraph.
MaxList == 2
\* The graphs that needed_to_connect and the collapse of a cycle with nodes
\* around it are studied on: ids 1..MaxNode, at most MaxEdges edges.
MaxNode == 4
MaxEdges == 4

Ids == 1..MaxId

VARIABLES
    nodes,      \* Graph.nodes after the last call
    before,     \* Graph.nodes when the last call was made
    op,         \* name of the call that has just returned; "ready" between calls
    args,       \* its arguments: <<from, to>>, <<a, b>>, a cycle's slice, or the input of Cycle::new
    ok,         \* its boolean result (TRUE for calls that return nothing)
    removed,    \* the usize returned by simplify
    pairs,      \* results of the collapse_pair calls made by collapse_cycle
    cyc,        \* the Option<Cycle> returned by find_cycle / Cycle::new
    out,        \* the Graph returned by subgraph / needed_to_connect
    ends,       \* the pair (starts, ends) returned by find_ends
    shown       \* the vector to_connect that needed_to_connect hands to dbg!

vars == <<nodes, before, op, args, ok, removed, pairs, cyc, out, ends, shown>>

----------------------------------------------------------------------------
(* Iteration order of BTreeMap / BTreeSet *)

RECURSIVE Ascending(_)
Ascending(S) ==
    IF S = {} THEN <<>>
    ELSE LET m == CHOOSE x \in S : \A y \in S : x <= y
         IN  <<m>> \o Ascending(S \ {m})

Range(s) == {s[i] : i \in 1..Len(s)}

----------------------------------------------------------------------------
(* cycle.rs *)

None == [some |-> FALSE, val |-> <<>>]
Some(v) == [some |-> TRUE, val |-> v]

\* Cycle::rotate: rotate the slice to the right by `by`
rotate(cycle, by) ==
    LET len == Len(cycle)
        by2 == ((by % len) + len) % len
        tmp == cycle
    IN  [i \in 1..len |-> IF i <= by2 THEN tmp[len - by2 + i] ELSE tmp[i - by2]]

\* 0-based index of the first minimum element (enumerate().min_by_key())
min_index(ns) ==
    (CHOOSE i \in 1..Len(ns) :
        /\ \A j \in 1..Len(ns) : ns[i] <= ns[j]
        /\ \A j \in 1..(i - 1) : ns[j] # ns[i]) - 1

min_pos_swapped(ns) == min_index(ns)

min_pos(ns) == Len(ns) - min_index(ns)

only_unique(ns) == Cardinality(Range(ns)) = Len(ns)

Cycle_new_accepts_single(ns) ==
    IF ~only_unique(ns) \/ Len(ns) < 1 THEN None
    ELSE Some(rotate(ns, min_pos(ns)))

Cycle_new(ns) ==
    IF ~only_unique(ns) \/ Len(ns) < 2 THEN None
    ELSE Some(rotate(ns, min_pos(ns)))

----------------------------------------------------------------------------
(* graph.rs: storage *)

EmptyGraph == <<>>

with_node(g, id) ==
    IF id \in DOMAIN g THEN g
    ELSE [n \in DOMAIN g \cup {id} |-> IF n = id THEN {} ELSE g[n]]

connect_eager(g, from, to) ==
    LET g1 == with_node(g, to)
        g2 == with_node(g1, from)
    IN  IF from = to THEN [g |-> g1, ret |-> FALSE]
        ELSE [g |-> [g2 EXCEPT ![from] = @ \cup {to}], ret |-> TRUE]

connect(g, from, to) ==
    IF from = to THEN [g |-> g, ret |-> FALSE]
    ELSE LET g1 == with_node(g, to)
             g2 == with_node(g1, from)
         IN  [g |-> [g2 EXCEPT ![from] = @ \cup {to}], ret |-> TRUE]

disconnect(g, from, to) ==
    IF from \in DOMAIN g THEN [g EXCEPT ![from] = @ \ {to}] ELSE g

\* Graph::to: the predecessors of `t`
to(g, t) == {f \in DOMAIN g : t \in g[f]}

\* Graph::from: the successors of `id`, or None
from(g, id) == IF id \in DOMAIN g THEN Some(g[id]) ELSE None

cleanup_sinks(g) ==
    LET to_remove == {n \in DOMAIN g : from(g, n).val = {}}
    IN  [n \in DOMAIN g \ to_remove |-> g[n]]

cleanup(g) ==
    LET to_remove == {n \in DOMAIN g : from(g, n).val = {} /\ Cardinality(to(g, n)) = 0}
    IN  [n \in DOMAIN g \ to_remove |-> g[n]]

----------------------------------------------------------------------------
(* graph.rs: cycle discovery *)

\* ancestors.iter().position(|x| x == connected), 1-based; 0 when absent
position(anc, x) ==
    IF \E i \in 1..Len(anc) : anc[i] = x
    THEN CHOOSE i \in 1..Len(anc) : anc[i] = x /\ \A j \in 1..(i - 1) : anc[j] # x
    ELSE 0

cycle_slice_whole(anc, cycle_start) == anc

\* ancestors[cycle_start..].to_vec()
cycle_slice(anc, cycle_start) == SubSeq(anc, cycle_start, Len(anc))

\* search_subtree returns the cycle it found, the `visited` set it grew and
\* the log it extended; search_loop is its `for connected in ...` loop over
\* the successors left.  log lists what the call did to the ancestors stack:
\* <<"push", n>> for ancestors.push(n), <<"pop", n>> for the ancestors.pop()
\* that removes n.
RECURSIVE search_subtree(_, _, _, _)
RECURSIVE search_loop(_, _, _, _, _)
search_subtree(g, ancestors, visited, log) ==
    IF ancestors = <<>> THEN [res |-> None, visited |-> visited, log |-> log]
    ELSE search_loop(g, ancestors, visited, log, Ascending(g[ancestors[Len(ancestors)]]))

search_loop(g, ancestors, visited, log, todo) ==
    IF todo = <<>> THEN [res |-> None, visited |-> visited, log |-> log]
    ELSE LET connected == Head(todo)
             cycle_start == position(ancestors, connected)
         IN  IF cycle_start # 0
             THEN [res |-> Cycle_new(cycle_slice(ancestors, cycle_start)),
                   visited |-> visited, log |-> log]
             ELSE LET sub == search_subtree(g, Append(ancestors, connected),
                                            visited \cup {connected},
                                            Append(log, <<"push", connected>>))
                  IN  IF sub.res.some THEN sub
                      ELSE search_loop(g, ancestors, sub.visited,
                                       Append(sub.log, <<"pop", connected>>), Tail(todo))

\* the `for (id, _) in self.nodes.iter()` loop of find_cycle over the roots left;
\* <<"root", id>> is the walk `vec![id]` starting, <<"done", id>> its end
RECURSIVE find_cycle_roots(_, _, _, _)
find_cycle_roots(g, visited, log, roots) ==
    IF roots = <<>> THEN [res |-> None, log |-> log]
    ELSE LET id == Head(roots)
         IN  IF id \in visited THEN find_cycle_roots(g, visited, log, Tail(roots))
             ELSE LET sub == search_subtree(g, <<id>>, visited \cup {id},
                                            Append(log, <<"root", id>>))
                  IN  IF sub.res.some THEN [res |-> sub.res, log |-> sub.log]
                      ELSE find_cycle_roots(g, sub.visited,
                                            Append(sub.log, <<"done", id>>), Tail(roots))

\* the whole find_cycle call: its result and what it did to its ancestors
\* stacks, in order
find_cycle_walk(g) == find_cycle_roots(g, {}, <<>>, Ascending(DOMAIN g))

find_cycle_first_root(g) ==
    IF DOMAIN g = {} THEN None
    ELSE search_subtree(g, <<Head(Ascending(DOMAIN g))>>, {Head(Ascending(DOMAIN g))}, <<>>).res

find_cycle(g) == find_cycle_walk(g).res

find_cycle_log(g) == find_cycle_walk(g).log

\* check_cycle: every window (from, to) of slice ++ [slice[0]] is an edge
check_cycle(g, cycle) ==
    LET chain == Append(cycle, cycle[1])
    IN  \A i \in 1..(Len(chain) - 1) :
            IF chain[i] \in DOMAIN g THEN chain[i + 1] \in g[chain[i]] ELSE FALSE

----------------------------------------------------------------------------
(* graph.rs: collapsing *)

adopt_none(g, a, todo) == g

\* first loop of collapse_pair: every successor `to` of the removed b, except a,
\* becomes a successor of a
RECURSIVE adopt_successors(_, _, _)
adopt_successors(g, a, todo) ==
    IF todo = <<>> THEN g
    ELSE LET t == Head(todo)
         IN  IF t = a THEN adopt_successors(g, a, Tail(todo))
             ELSE adopt_successors(connect(g, a, t).g, a, Tail(todo))

redirect_keep_old(g, a, b, todo) == g

\* second loop of collapse_pair: every predecessor `from` of b is connected to a
\* and disconnected from b
RECURSIVE redirect_predecessors(_, _, _, _)
redirect_predecessors(g, a, b, todo) ==
    IF todo = <<>> THEN g
    ELSE LET f == Head(todo)
         IN  redirect_predecessors(disconnect(connect(g, f, a).g, f, b), a, b, Tail(todo))

remove_node_keep_key(g, b) == [g EXCEPT ![b] = {}]

\* self.nodes.remove(&b): the map without b, and b's successors
remove_node(g, b) == [n \in DOMAIN g \ {b} |-> g[n]]

collapse_pair_drop(g, a, b) ==
    IF a = b \/ a \notin DOMAIN g \/ b \notin DOMAIN g THEN [g |-> g, ret |-> FALSE]
    ELSE IF ~(b \in g[a] \/ a \in g[b]) THEN [g |-> g, ret |-> FALSE]
    ELSE LET g1 == remove_node(g, b)
         IN  [g |-> redirect_predecessors(g1, a, b, Ascending(to(g1, b))), ret |-> TRUE]

collapse_pair(g, a, b) ==
    IF a = b \/ a \notin DOMAIN g \/ b \notin DOMAIN g THEN [g |-> g, ret |-> FALSE]
    ELSE IF ~(b \in g[a] \/ a \in g[b]) THEN [g |-> g, ret |-> FALSE]
    ELSE LET g1 == adopt_successors(remove_node(g, b), a, Ascending(g[b]))
             g2 == redirect_predecessors(g1, a, b, Ascending(to(g1, b)))
         IN  [g |-> g2, ret |-> TRUE]

\* the `for node in rest.iter()` loop of collapse_cycle; the results of the
\* collapse_pair calls, which the code drops, are collected in rets
RECURSIVE collapse_rest(_, _, _, _)
collapse_rest(g, first, rest, rets) ==
    IF rest = <<>> THEN [g |-> g, rets |-> rets]
    ELSE LET r == collapse_pair(g, first, Head(rest))
         IN  collapse_rest(r.g, first, Tail(rest), Append(rets, r.ret))

collapse_cycle_into_last(g, cycle) ==
    IF ~check_cycle(g, cycle) THEN [g |-> g, ret |-> FALSE, rets |-> <<>>]
    ELSE LET r == collapse_rest(g, cycle[Len(cycle)], SubSeq(cycle, 1, Len(cycle) - 1), <<>>)
         IN  [g |-> r.g, ret |-> TRUE, rets |-> r.rets]

collapse_cycle(g, cycle) ==
    IF ~check_cycle(g, cycle) THEN [g |-> g, ret |-> FALSE, rets |-> <<>>]
    ELSE LET first == Head(cycle)
             rest == Tail(cycle)
             r == collapse_rest(g, first, rest, <<>>)
         IN  [g |-> r.g, ret |-> TRUE, rets |-> r.rets]

\* the `while let Some(cycle) = self.find_cycle()` loop of simplify
\* sizes lists the node count at each evaluation of the loop condition
RECURSIVE simplify_loop(_, _, _)
simplify_loop(g, count, sizes) ==
    LET found == find_cycle(g)
        seen == Append(sizes, Cardinality(DOMAIN g))
    IN  IF found.some
        THEN simplify_loop(collapse_cycle(g, found.val).g, count + Len(found.val), seen)
        ELSE [g |-> g, removed |-> count, sizes |-> seen]

simplify_once(g) ==
    LET found == find_cycle(g)
    IN  IF found.some
        THEN [g |-> cleanup(collapse_cycle(g, found.val).g), removed |-> Len(found.val)]
        ELSE [g |-> cleanup(g), removed |-> 0]

simplify_no_cleanup(g) == simplify_loop(g, 0, <<>>)

simplify(g) ==
    LET r == simplify_loop(g, 0, <<>>)
    IN  [g |-> cleanup(r.g), removed |-> r.removed]

simplified(g) == simplify(g).g

----------------------------------------------------------------------------
(* graph.rs: queries *)

\* inner loop of subgraph: the successors of `node` that are in `ids` are
\* connected in the subgraph
RECURSIVE subgraph_successors(_, _, _, _)
subgraph_successors(sub, ids, node, todo) ==
    IF todo = <<>> THEN sub
    ELSE LET connected_to_id == Head(todo)
         IN  subgraph_successors(
                 IF connected_to_id \in Range(ids)
                 THEN connect(sub, node, connected_to_id).g ELSE sub,
                 ids, node, Tail(todo))

\* outer loop of subgraph, over the ids in the order given
RECURSIVE subgraph_nodes(_, _, _, _)
subgraph_nodes(sub, g, ids, todo) ==
    IF todo = <<>> THEN sub
    ELSE LET node == Head(todo)
         IN  subgraph_nodes(
                 IF from(g, node).some
                 THEN subgraph_successors(sub, ids, node, Ascending(from(g, node).val))
                 ELSE sub,
                 g, ids, Tail(todo))

subgraph_no_filter(g, ids) ==
    cleanup(subgraph_nodes(EmptyGraph, g, ids \o Ascending(Ids), ids))

subgraph(g, ids) == cleanup(subgraph_nodes(EmptyGraph, g, ids, ids))

\* the loop of find_ends over the nodes left, in ascending order
RECURSIVE find_ends_loop(_, _, _, _)
find_ends_loop(g, todo, starts, sinks) ==
    IF todo = <<>> THEN <<starts, sinks>>
    ELSE LET id == Head(todo)
         IN  find_ends_loop(g, Tail(todo),
                 IF Cardinality(to(g, id)) = 0 THEN Append(starts, id) ELSE starts,
                 IF g[id] = {} THEN Append(sinks, id) ELSE sinks)

\* find_ends returns (starts, ends)
find_ends(g) == find_ends_loop(g, Ascending(DOMAIN g), <<>>, <<>>)

RECURSIVE connect_chain_chunks(_, _)
connect_chain_chunks(g, todo) ==
    IF Len(todo) < 2 THEN g
    ELSE connect_chain_chunks(connect(g, todo[1], todo[2]).g, Tail(Tail(todo)))

\* the `for (from, to) in to_connect.iter().tuple_windows()` loop
RECURSIVE connect_chain(_, _)
connect_chain(g, todo) ==
    IF Len(todo) < 2 THEN g
    ELSE connect_chain(connect(g, todo[1], todo[2]).g, Tail(todo))

needed_to_connect_starts_first(g) ==
    LET graph == simplified(g)
        found == find_ends(graph)
        to_connect == found[1] \o found[2]
    IN  [g |-> subgraph(connect_chain(graph, to_connect), to_connect),
         to_connect |-> to_connect]

\* needed_to_connect returns a Graph; to_connect is what it passes to dbg!
needed_to_connect(g) ==
    LET graph == simplified(g)
        found == find_ends(graph)
        starts == found[1]
        to_connect == found[2] \o starts
    IN  [g |-> subgraph(connect_chain(graph, to_connect), to_connect),
         to_connect |-> to_connect]

----------------------------------------------------------------------------
(* The graph as a state machine: one action per public method *)

\* CyclesOver(S): every Cycle value over the ids S (what a caller can hand to
\* check_cycle / collapse_cycle)
\* every Vec<u32> of at most n ids of S
RECURSIVE SeqsOver(_, _)
SeqsOver(S, n) ==
    IF n = 0 THEN {<<>>}
    ELSE LET shorter == SeqsOver(S, n - 1)
         IN  shorter \cup {Append(s, x) : s \in {t \in shorter : Len(t) = n - 1}, x \in S}

SeqsUpTo(n) == SeqsOver(Ids, n)

CyclesOver(S) ==
    {Cycle_new(s).val : s \in {t \in SeqsOver(S, Cardinality(S)) : Cycle_new(t).some}}

Cycles == CyclesOver(Ids)

\* the id lists handed to subgraph
IdLists == SeqsUpTo(MaxList)

Init ==
    /\ nodes = EmptyGraph
    /\ before = EmptyGraph
    /\ op = "ready"
    /\ args = <<>>
    /\ ok = TRUE
    /\ removed = 0
    /\ pairs = <<>>
    /\ cyc = None
    /\ out = EmptyGraph
    /\ ends = <<<<>>, <<>>>>
    /\ shown = <<>>

Connect(f, t) ==
    /\ op = "ready"
    /\ nodes' = connect(nodes, f, t).g
    /\ ok' = connect(nodes, f, t).ret
    /\ before' = nodes
    /\ op' = "connect"
    /\ out' = EmptyGraph /\ ends' = <<<<>>, <<>>>> /\ shown' = <<>>
    /\ args' = <<f, t>>
    /\ removed' = 0 /\ pairs' = <<>> /\ cyc' = None

Disconnect(f, t) ==
    /\ op = "ready"
    /\ nodes' = disconnect(nodes, f, t)
    /\ ok' = TRUE
    /\ before' = nodes
    /\ op' = "disconnect"
    /\ out' = EmptyGraph /\ ends' = <<<<>>, <<>>>> /\ shown' = <<>>
    /\ args' = <<f, t>>
    /\ removed' = 0 /\ pairs' = <<>> /\ cyc' = None

Cleanup ==
    /\ op = "ready"
    /\ nodes' = cleanup(nodes)
    /\ ok' = TRUE
    /\ before' = nodes
    /\ op' = "cleanup"
    /\ out' = EmptyGraph /\ ends' = <<<<>>, <<>>>> /\ shown' = <<>>
    /\ args' = <<>>
    /\ removed' = 0 /\ pairs' = <<>> /\ cyc' = None

FindCycle ==
    /\ op = "ready"
    /\ cyc' = find_cycle(nodes)
    /\ nodes' = nodes
    /\ ok' = TRUE
    /\ before' = nodes
    /\ op' = "find_cycle"
    /\ out' = EmptyGraph /\ ends' = <<<<>>, <<>>>> /\ shown' = <<>>
    /\ args' = <<>>
    /\ removed' = 0 /\ pairs' = <<>>

CheckCycle(c) ==
    /\ op = "ready"
    /\ ok' = check_cycle(nodes, c)
    /\ nodes' = nodes
    /\ before' = nodes
    /\ op' = "check_cycle"
    /\ out' = EmptyGraph /\ ends' = <<<<>>, <<>>>> /\ shown' = <<>>
    /\ args' = c
    /\ removed' = 0 /\ pairs' = <<>> /\ cyc' = None

CollapsePair(a, b) ==
    /\ op = "ready"
    /\ nodes' = collapse_pair(nodes, a, b).g
    /\ ok' = collapse_pair(nodes, a, b).ret
    /\ before' = nodes
    /\ op' = "collapse_pair"
    /\ out' = EmptyGraph /\ ends' = <<<<>>, <<>>>> /\ shown' = <<>>
    /\ args' = <<a, b>>
    /\ removed' = 0 /\ pairs' = <<>> /\ cyc' = None

CollapseCycle(c) ==
    /\ op = "ready"
    /\ nodes' = collapse_cycle(nodes, c).g
    /\ ok' = collapse_cycle(nodes, c).ret
    /\ pairs' = collapse_cycle(nodes, c).rets
    /\ before' = nodes
    /\ op' = "collapse_cycle"
    /\ out' = EmptyGraph /\ ends' = <<<<>>, <<>>>> /\ shown' = <<>>
    /\ args' = c
    /\ removed' = 0 /\ cyc' = None

Simplify ==
    /\ op = "ready"
    /\ nodes' = simplify(nodes).g
    /\ removed' = simplify(nodes).removed
    /\ ok' = TRUE
    /\ before' = nodes
    /\ op' = "simplify"
    /\ out' = EmptyGraph /\ ends' = <<<<>>, <<>>>> /\ shown' = <<>>
    /\ args' = <<>>
    /\ pairs' = <<>> /\ cyc' = None

Subgraph(ids) ==
    /\ op = "ready"
    /\ out' = subgraph(nodes, ids)
    /\ nodes' = nodes
    /\ before' = nodes
    /\ op' = "subgraph"
    /\ args' = ids
    /\ ok' = TRUE
    /\ removed' = 0 /\ pairs' = <<>> /\ cyc' = None
    /\ ends' = <<<<>>, <<>>>> /\ shown' = <<>>

FindEnds ==
    /\ op = "ready"
    /\ ends' = find_ends(nodes)
    /\ nodes' = nodes
    /\ before' = nodes
    /\ op' = "find_ends"
    /\ args' = <<>>
    /\ ok' = TRUE
    /\ removed' = 0 /\ pairs' = <<>> /\ cyc' = None
    /\ out' = EmptyGraph /\ shown' = <<>>

NeededToConnect ==
    /\ op = "ready"
    /\ LET r == needed_to_connect(nodes)
       IN  out' = r.g /\ shown' = r.to_connect
    /\ nodes' = nodes
    /\ before' = nodes
    /\ op' = "needed_to_connect"
    /\ args' = <<>>
    /\ ok' = TRUE
    /\ removed' = 0 /\ pairs' = <<>> /\ cyc' = None
    /\ ends' = <<<<>>, <<>>>>

\* the call returns to its caller, which takes the result
Return ==
    /\ op # "ready"
    /\ op' = "ready"
    /\ out' = EmptyGraph /\ ends' = <<<<>>, <<>>>> /\ shown' = <<>>
    /\ before' = nodes
    /\ args' = <<>>
    /\ ok' = TRUE
    /\ removed' = 0 /\ pairs' = <<>> /\ cyc' = None
    /\ UNCHANGED nodes

Next ==
    \/ \E f \in Ids, t \in Ids : Connect(f, t)
    \/ \E f \in Ids, t \in Ids : Disconnect(f, t)
    \/ Cleanup
    \/ FindCycle
    \/ \E c \in Cycles : CheckCycle(c)
    \/ \E a \in Ids, b \in Ids : CollapsePair(a, b)
    \/ \E c \in Cycles : CollapseCycle(c)
    \/ Simplify
    \/ \E ids \in IdLists : Subgraph(ids)
    \/ FindEnds
    \/ NeededToConnect
    \/ Return

Spec == Init /\ [][Next]_vars

----------------------------------------------------------------------------
(* Cycle::new as a function of its input: the input is any sequence of at   *)
(* most MaxLen ids, the one step constructs the Cycle.                      *)

InitCycle ==
    /\ op = "input"
    /\ args \in SeqsUpTo(MaxLen)
    /\ nodes = EmptyGraph
    /\ before = EmptyGraph
    /\ ok = TRUE
    /\ removed = 0
    /\ pairs = <<>>
    /\ cyc = None
    /\ out = EmptyGraph
    /\ ends = <<<<>>, <<>>>>
    /\ shown = <<>>

CycleNew ==
    /\ op = "input"
    /\ op' = "cycle_new"
    /\ cyc' = Cycle_new(args)
    /\ UNCHANGED <<nodes, before, args, ok, removed, pairs, out, ends, shown>>

NextCycle == CycleNew

SpecCycle == InitCycle /\ [][NextCycle]_vars

----------------------------------------------------------------------------
(* The operations that need a fourth node around them, on every graph of    *)
(* at most MaxEdges edges over the ids 1..MaxNode.  Each such graph is what  *)
(* connect and disconnect calls can leave behind.                            *)

WideIds == 1..MaxNode

RECURSIVE EdgeSetsUpTo(_)
EdgeSetsUpTo(k) ==
    IF k = 0 THEN {{}}
    ELSE LET fewer == EdgeSetsUpTo(k - 1)
         IN  fewer \cup {E \cup {e} : E \in fewer,
                                      e \in {d \in WideIds \X WideIds : d[1] # d[2]}}

\* the map with the keys N and the edges E
GraphOf(N, E) == [n \in N |-> {e[2] : e \in {d \in E : d[1] = n}}]

WideGraphs ==
    UNION {{GraphOf(N, E) :
                N \in {M \in SUBSET WideIds : \A e \in E : e[1] \in M /\ e[2] \in M}} :
           E \in EdgeSetsUpTo(MaxEdges)}

WideCycles == CyclesOver(WideIds)

InitWide ==
    /\ nodes \in WideGraphs
    /\ before = nodes
    /\ op = "ready"
    /\ args = <<>>
    /\ ok = TRUE
    /\ removed = 0
    /\ pairs = <<>>
    /\ cyc = None
    /\ out = EmptyGraph
    /\ ends = <<<<>>, <<>>>>
    /\ shown = <<>>

NextWide ==
    \/ \E c \in WideCycles : CollapseCycle(c)
    \/ Simplify
    \/ NeededToConnect
    \/ Return

SpecWide == InitWide /\ [][NextWide]_vars

----------------------------------------------------------------------------
(* Vocabulary of the properties *)

Edges(g) == {e \in (DOMAIN g) \X (UNION {g[n] : n \in DOMAIN g}) : e[2] \in g[e[1]]}

WellFormed(g) ==
    \A n \in DOMAIN g : n \notin g[n] /\ g[n] \subseteq DOMAIN g

\* least set containing S and closed under the edges of g
RECURSIVE Closure(_, _)
Closure(g, S) ==
    LET T == S \cup UNION {g[n] : n \in S \cap DOMAIN g}
    IN  IF T = S THEN S ELSE Closure(g, T)

\* the nodes reachable from n along one or more edges
Reachable(g, n) == Closure(g, g[n])

HasCycle(g) == \E n \in DOMAIN g : n \in Reachable(g, n)

Distinct(s) == \A i, j \in 1..Len(s) : i # j => s[i] # s[j]

\* s rotated to the left by k
Rot(s, k) == [i \in 1..Len(s) |-> s[((i - 1 + k) % Len(s)) + 1]]

Triangle == [n \in {1, 2, 3} |-> {(n % 3) + 1}]

----------------------------------------------------------------------------
(* Properties *)

\* C1: after any sequence of connect, disconnect, cleanup, collapse_pair,
\* collapse_cycle and simplify calls from the empty graph, every destination
\* of an edge is a node and no node is its own successor.
C1_WellFormed == WellFormed(nodes)

\* a collapse_pair that moved a predecessor of b over to a
C1_Witness ==
    /\ op = "collapse_pair" /\ ok
    /\ \E y \in DOMAIN before : y # args[1] /\ args[2] \in before[y]

\* C2: right after simplify() returns, find_cycle() returns none and a second
\* simplify() returns 0 and leaves the graph as it is.
C2_SimplifyFixedPoint ==
    op = "simplify" =>
        /\ find_cycle(nodes) = None
        /\ simplify(nodes).removed = 0
        /\ simplify(nodes).g = nodes

\* a simplify that went round its loop more than once (two cycles of 2 collapsed)
C2_Witness ==
    /\ op = "simplify"
    /\ removed >= 4

\* C3: find_cycle() returns none exactly when no node reaches itself along
\* one or more edges; hence the graph simplify() leaves has no cycle.
C3_FindCycleIffCyclic ==
    /\ op = "find_cycle" => (cyc.some <=> HasCycle(before))
    /\ op = "simplify" => ~HasCycle(nodes)

\* find_cycle answers none on a graph of three nodes and three edges
C3_Witness ==
    /\ op = "find_cycle" /\ ~cyc.some
    /\ Cardinality(Edges(before)) = 3

\* C4: the value simplify() returns is the number of nodes the call removed.
C4_SimplifyCountsRemoved ==
    op = "simplify" =>
        removed = Cardinality(DOMAIN before) - Cardinality(DOMAIN nodes)

\* C5 as stated: on 1->2, 2->3, 3->1 find_cycle() returns [1,2,3] and
\* simplify() returns 3 and leaves the single node 1 with no edges.
C5_TriangleLeavesNode1 ==
    /\ (op = "find_cycle" /\ before = Triangle) => cyc = Some(<<1, 2, 3>>)
    /\ (op = "simplify" /\ before = Triangle) =>
            (removed = 3 /\ nodes = [n \in {1} |-> {}])

\* C5 amended: on 1->2, 2->3, 3->1 find_cycle() returns [1,2,3] and
\* simplify() returns 3 and leaves the empty graph.
C5_TriangleLeavesNothing ==
    /\ (op = "find_cycle" /\ before = Triangle) => cyc = Some(<<1, 2, 3>>)
    /\ (op = "simplify" /\ before = Triangle) =>
            (removed = 3 /\ nodes = EmptyGraph)

C5_Witness == op = "simplify" /\ before = Triangle

\* b merged into a: f(b) = a, f the identity elsewhere
MergedEdges(g, a, b) ==
    LET f(n) == IF n = b THEN a ELSE n
    IN  {e \in {<<f(d[1]), f(d[2])>> : d \in Edges(g)} : e[1] # e[2]}

\* C6: collapse_pair(a,b) with a # b, both nodes, and a->b or b->a present
\* returns true and leaves the old graph with b merged into a: the nodes
\* are the old ones minus b, the edges are the old ones with b renamed to a
\* and the loops dropped.
C6_CollapsePairMerges ==
    LET a == args[1]
        b == args[2]
    IN  (/\ op = "collapse_pair"
         /\ a # b /\ a \in DOMAIN before /\ b \in DOMAIN before
         /\ (b \in before[a] \/ a \in before[b]))
        => /\ ok
           /\ DOMAIN nodes = DOMAIN before \ {b}
           /\ Edges(nodes) = MergedEdges(before, a, b)
           /\ (before[b] \ {a}) \subseteq nodes[a]
           /\ \A y \in DOMAIN before \ {a, b} : b \in before[y] => a \in nodes[y]
           /\ \A n \in DOMAIN nodes : b \notin nodes[n]

\* b had a successor other than a that a did not have, and a predecessor other than a
C6_Witness ==
    /\ op = "collapse_pair" /\ ok
    /\ before[args[2]] \ ({args[1]} \cup before[args[1]]) # {}
    /\ \E y \in DOMAIN before \ {args[1]} : args[2] \in before[y]

\* C7: a call that returns false leaves the graph as it was; connect(a,a),
\* collapse_pair(a,b) with a = b, a or b not a node or neither a->b nor b->a,
\* and collapse_cycle(c) with check_cycle(c) false, all return false.
C7_RejectedUnchanged ==
    /\ ~ok => nodes = before
    /\ (op = "connect" /\ args[1] = args[2]) => ~ok
    /\ (op = "collapse_pair" /\
            (\/ args[1] = args[2]
             \/ args[1] \notin DOMAIN before
             \/ args[2] \notin DOMAIN before
             \/ (args[2] \notin before[args[1]] /\ args[1] \notin before[args[2]])))
        => ~ok
    /\ (op = "collapse_cycle" /\ ~check_cycle(before, args)) => ~ok

\* connect(a,a) on a graph that a is not a node of
C7_Witness ==
    /\ op = "connect" /\ ~ok
    /\ args[1] \notin DOMAIN before
    /\ DOMAIN before # {}

\* C8: a cycle returned by find_cycle() has at least 2 distinct nodes, each
\* consecutive pair of it, the last and the first included, is an edge of
\* the graph, and check_cycle accepts it.
C8_FoundCycleChecks ==
    (op = "find_cycle" /\ cyc.some) =>
        LET c == cyc.val
        IN  /\ Len(c) >= 2
            /\ Distinct(c)
            /\ \A i \in 1..Len(c) : <<c[i], c[(i % Len(c)) + 1]>> \in Edges(before)
            /\ check_cycle(before, c)

\* the cycle found is a proper suffix of the path 1, 3, 2 and gets rotated
C8_Witness ==
    /\ op = "find_cycle" /\ cyc = Some(<<2, 3>>)
    /\ 1 \in DOMAIN before /\ before[1] = {3}

\* C9: when check_cycle(c) holds, collapse_cycle(c) returns true, makes one
\* collapse_pair call per node after the first and each returns true; c's
\* first node stays a node, no other node of c is a node or a destination,
\* and the node count drops by len(c) - 1.
C9_CollapseCycleCollapsesAll ==
    (op = "collapse_cycle" /\ check_cycle(before, args)) =>
        /\ ok
        /\ Len(pairs) = Len(args) - 1
        /\ \A i \in 1..Len(pairs) : pairs[i]
        /\ args[1] \in DOMAIN nodes
        /\ \A i \in 2..Len(args) :
              /\ args[i] \notin DOMAIN nodes
              /\ \A n \in DOMAIN nodes : args[i] \notin nodes[n]
        /\ Cardinality(DOMAIN nodes) = Cardinality(DOMAIN before) - (Len(args) - 1)

\* a cycle collapsed while a node outside it pointed at an absorbed node
C9_Witness ==
    /\ op = "collapse_cycle" /\ ok
    /\ \E y \in DOMAIN before : \E i \in 2..Len(args) :
          y \notin Range(args) /\ args[i] \in before[y]

\* C10: for a sequence s of at least 2 distinct ids, Cycle::new(s) succeeds,
\* stores the rotation of s that starts with the minimum of s, and
\* Cycle::new of every rotation of s yields the same Cycle.
C10_CanonicalRotation ==
    (op = "cycle_new" /\ Len(args) >= 2 /\ Distinct(args)) =>
        /\ cyc.some
        /\ \A x \in Range(args) : cyc.val[1] <= x
        /\ \E k \in 0..(Len(args) - 1) : cyc.val = Rot(args, k)
        /\ \A k \in 0..(Len(args) - 1) : Cycle_new(Rot(args, k)) = cyc

\* three ids with the minimum in the middle
C10_Witness ==
    /\ op = "cycle_new" /\ cyc.some
    /\ Len(args) = 3 /\ args[2] < args[1] /\ args[2] < args[3]

\* C11: Cycle::new returns None exactly when its input holds an id twice or
\* has fewer than 2 elements, and a Cycle otherwise.
C11_ConstructionFailsExactly ==
    op = "cycle_new" =>
        /\ ~cyc.some <=> (~Distinct(args) \/ Len(args) < 2)
        /\ ~cyc.some => cyc = None
        /\ Len(args) < 2 => cyc = None

\* a one-element input was refused
C11_Witness == op = "cycle_new" /\ Len(args) = 1 /\ cyc = None

Isolated(g) == {n \in DOMAIN g : g[n] = {} /\ \A m \in DOMAIN g : n \notin g[m]}

\* C14: cleanup() removes exactly the nodes with no successor and no
\* predecessor, leaves every other node and every edge as it was, and a
\* second cleanup() changes nothing.
C14_CleanupRemovesIsolated ==
    op = "cleanup" =>
        /\ DOMAIN nodes = DOMAIN before \ Isolated(before)
        /\ \A n \in DOMAIN nodes : nodes[n] = before[n]
        /\ Edges(nodes) = Edges(before)
        /\ cleanup(nodes) = nodes

\* cleanup removed a node and kept a sink that has a predecessor
C14_Witness ==
    /\ op = "cleanup"
    /\ DOMAIN nodes # DOMAIN before
    /\ \E n \in DOMAIN nodes : nodes[n] = {}

Chain123 == [n \in {1, 2, 3} |-> IF n = 3 THEN {} ELSE {n + 1}]

\* C15: subgraph(ids) has exactly the edges of g with both ends in ids and
\* exactly the ends of those edges as nodes, and leaves g as it was;
\* subgraph([1,2]) of 1->2, 2->3 is the graph 1->2 without node 3.
C15_SubgraphInduced ==
    op = "subgraph" =>
        LET kept == {e \in Edges(before) : e[1] \in Range(args) /\ e[2] \in Range(args)}
        IN  /\ Edges(out) = kept
            /\ DOMAIN out = {e[1] : e \in kept} \cup {e[2] : e \in kept}
            /\ nodes = before
            /\ (before = Chain123 /\ args = <<1, 2>>) =>
                    out = [n \in {1, 2} |-> IF n = 1 THEN {2} ELSE {}]

\* subgraph([1,2]) of the graph 1->2, 2->3
C15_Witness == op = "subgraph" /\ before = Chain123 /\ args = <<1, 2>>

\* C16: during one find_cycle() call, a node that was popped off the
\* ancestors stack, or was the root of a finished walk, is never pushed onto
\* the ancestors stack again.
C16_ExploredNeverRepushed ==
    op = "find_cycle" =>
        LET log == find_cycle_log(before)
        IN  \A i, j \in 1..Len(log) :
                (i < j /\ log[i][1] \in {"pop", "done"}) => log[j] # <<"push", log[i][2]>>

\* C17: simplify() terminates: every round of its find_cycle/collapse_cycle
\* loop leaves fewer nodes than it found, so on a graph of n >= 1 nodes the
\* loop makes at most n - 1 rounds (none on the empty graph).
C17_SimplifyRoundsDecrease ==
    op = "simplify" =>
        LET sizes == simplify_loop(before, 0, <<>>).sizes
            rounds == Len(sizes) - 1
        IN  /\ sizes[1] = Cardinality(DOMAIN before)
            /\ \A i \in 1..rounds : sizes[i + 1] < sizes[i]
            /\ IF DOMAIN before = {} THEN rounds = 0
               ELSE rounds <= Cardinality(DOMAIN before) - 1

\* a simplify of two rounds on three nodes: as many rounds as the bound allows
C17_Witness ==
    /\ op = "simplify"
    /\ Cardinality(DOMAIN before) = 3
    /\ Len(simplify_loop(before, 0, <<>>).sizes) = 3

TwoChains == GraphOf({1, 2, 3, 4}, {<<1, 2>>, <<3, 4>>})

\* C12 as stated: on 1->2, 3->4 needed_to_connect() returns the graph with
\* the nodes {1,2,3,4} and the edges 2->4, 4->1, 1->3.
C12_TwoChainsOnlyConnectors ==
    (op = "needed_to_connect" /\ before = TwoChains) =>
        /\ DOMAIN out = {1, 2, 3, 4}
        /\ Edges(out) = {<<2, 4>>, <<4, 1>>, <<1, 3>>}

\* C12 amended: on 1->2, 3->4 needed_to_connect() returns the graph with the
\* nodes {1,2,3,4} and the edges 2->4, 4->1, 1->3 next to the edges 1->2 and
\* 3->4 the graph had.
C12_TwoChainsKeepsEdges ==
    (op = "needed_to_connect" /\ before = TwoChains) =>
        /\ DOMAIN out = {1, 2, 3, 4}
        /\ Edges(out) = {<<2, 4>>, <<4, 1>>, <<1, 3>>, <<1, 2>>, <<3, 4>>}

C12_Witness == op = "needed_to_connect" /\ before = TwoChains /\ shown = <<2, 4, 1, 3>>

Sinks(g) == {n \in DOMAIN g : g[n] = {}}
Sources(g) == {n \in DOMAIN g : \A m \in DOMAIN g : n \notin g[m]}

\* C13: with T the sinks of the simplified clone in ascending order followed
\* by its sources in ascending order, the graph needed_to_connect() returns
\* has the edge x->y for every two consecutive elements x, y of T (no step of
\* the chain is a rejected connect(x,x)), every element of T is a node of it
\* and every node of it is an element of T.
C13_ChainThroughEnds ==
    op = "needed_to_connect" =>
        LET s == simplified(before)
            T == Ascending(Sinks(s)) \o Ascending(Sources(s))
        IN  /\ shown = T
            /\ \A i \in 1..(Len(T) - 1) :
                  T[i] # T[i + 1] /\ <<T[i], T[i + 1]>> \in Edges(out)
            /\ DOMAIN out \subseteq Range(T)
            /\ Len(T) # 1
            /\ Range(T) = DOMAIN out

\* a chain through two sinks and two sources
C13_Witness ==
    /\ op = "needed_to_connect"
    /\ Len(shown) = 4
    /\ HasCycle(out)

\* C18: collapse_cycle(c) with check_cycle(c) true keeps reachability seen
\* from outside c: for x, y not in c, y is reachable from x afterwards iff it
\* was before; y is reachable from c's first node afterwards iff it was
\* reachable from some node of c; c's first node is reachable from x
\* afterwards iff some node of c was reachable from x.
C18_CollapseKeepsReachability ==
    (op = "collapse_cycle" /\ check_cycle(before, args)) =>
        LET c == Range(args)
            first == args[1]
            outside == DOMAIN before \ c
        IN  /\ outside \subseteq DOMAIN nodes
            /\ \A x, y \in outside :
                  y \in Reachable(nodes, x) <=> y \in Reachable(before, x)
            /\ \A y \in outside :
                  y \in Reachable(nodes, first) <=> \E n \in c : y \in Reachable(before, n)
            /\ \A x \in outside :
                  first \in Reachable(nodes, x) <=> \E n \in c : n \in Reachable(before, x)

\* x outside the cycle reaches another outside node y only through the cycle,
\* entering it at a node that is absorbed and leaving it from another node
C18_Witness ==
    /\ op = "collapse_cycle" /\ ok
    /\ \E x, y \in DOMAIN before \ Range(args) :
          /\ x # y
          /\ before[x] # {} /\ before[x] \subseteq Range(args) \ {args[1]}
          /\ y \in Reachable(nodes, x)
          /\ \E n \in Range(args) : y \in before[n] /\ n \notin before[x]

\* C19: the graph simplify() leaves has no isolated node, so find_ends() on
\* it names no node both as a start and as an end, and the to_connect vector
\* of needed_to_connect() holds no id twice.
C19_NoIsolatedAfterSimplify ==
    /\ op = "simplify" =>
          /\ Isolated(nodes) = {}
          /\ Range(find_ends(nodes)[1]) \cap Range(find_ends(nodes)[2]) = {}
    /\ op = "needed_to_connect" => Distinct(shown)

\* simplify removed an isolated node the collapse of a cycle left, and kept edges
C19_Witness ==
    /\ op = "simplify"
    /\ removed > 0
    /\ Isolated(simplify_loop(before, 0, <<>>).g) # {}
    /\ Edges(nodes) # {}

====
